---- MODULE Spec2Model ----
(***************************************************************************)
(* Model of the data.csv generator (func.py) and its reading library       *)
(* (lib.py).  A file is a sequence of characters; the writer formats       *)
(* integers to decimal text and terminates rows with CR LF, the readers    *)
(* split the text into rows and columns and parse the first column back.   *)
(***************************************************************************)
EXTENDS Integers, Sequences, FiniteSets, TLC

VARIABLES dir_exists, file_exists, content, saved, op, fault, ret

vars == <<dir_exists, file_exists, content, saved, op, fault, ret>>

(* ------------------------------- bounds -------------------------------- *)

\* longest file an external editor builds, in characters
MaxFileLen == 4
\* longest sequence handed to save_to_csv
MaxSeqLen == 2
\* largest absolute value of an integer handed to save_to_csv
MaxAbs == 11
\* an I/O fault may hit the 1st..MaxFault-th fetch of a row (0: no fault)
MaxFault == 2

(* ----------------------------- characters ------------------------------ *)

CR == "\r"
LF == "\n"
Comma == ","
Space == " "
Minus == "-"
Plus == "+"
Digits == <<"0", "1", "2", "3", "4", "5", "6", "7", "8", "9">>

IsDigit(c) == \E i \in 1..Len(Digits) : Digits[i] = c
DigitVal(c) == (CHOOSE i \in 1..Len(Digits) : Digits[i] = c) - 1

\* characters an external editor types into the file
ExternalChars == {"x", "X", "1", Comma, Space, LF}

\* integers handed to save_to_csv: negative, zero, one digit, several digits
IntVals == {0 - MaxAbs, 0, 7, MaxAbs}

RECURSIVE SeqsUpTo(_, _)
SeqsUpTo(S, n) ==
    IF n = 0 THEN {<<>>}
    ELSE LET shorter == SeqsUpTo(S, n - 1)
         IN  shorter \cup {Append(s, e) : s \in {t \in shorter : Len(t) = n - 1}, e \in S}

file_path == "out/data.csv"
IOErrorText == "[Errno 5] Input/output error"

(* ------------------------ str(int) and int(str) ------------------------ *)

RECURSIVE Dec(_)
Dec(n) ==
    IF n < 10 THEN <<Digits[n + 1]>>
    ELSE Append(Dec(n \div 10), Digits[(n % 10) + 1])

\* str(variable) for an integer, as csv.writer formats a non-string field
py_str(n) == IF n < 0 THEN <<Minus>> \o Dec(0 - n) ELSE Dec(n)

RECURSIVE LStrip(_)
LStrip(s) == IF s # <<>> /\ Head(s) = Space THEN LStrip(Tail(s)) ELSE s

RECURSIVE RStrip(_)
RStrip(s) ==
    IF s # <<>> /\ s[Len(s)] = Space THEN RStrip(SubSeq(s, 1, Len(s) - 1)) ELSE s

RECURSIVE DecVal(_)
DecVal(s) ==
    IF s = <<>> THEN 0
    ELSE 10 * DecVal(SubSeq(s, 1, Len(s) - 1)) + DigitVal(s[Len(s)])

\* int(row[0]): surrounding whitespace stripped, an optional sign, then one
\* or more decimal digits; anything else is a ValueError (ok = FALSE)
py_int(s) ==
    LET t      == RStrip(LStrip(s))
        signed == t # <<>> /\ Head(t) \in {Minus, Plus}
        body   == IF signed THEN Tail(t) ELSE t
        good   == body # <<>> /\ \A i \in 1..Len(body) : IsDigit(body[i])
    IN  IF ~good THEN [ok |-> FALSE, val |-> 0]
        ELSE [ok |-> TRUE,
              val |-> IF signed /\ Head(t) = Minus THEN 0 - DecVal(body) ELSE DecVal(body)]

\* str.lower() on the header cell
Lower(s) == [i \in 1..Len(s) |-> IF s[i] = "X" THEN "x" ELSE s[i]]

(* --------------------- csv.writer and csv.reader ----------------------- *)

\* writer.writerow([field]): the field followed by the line terminator CR LF
writerow(field) == field \o <<CR, LF>>

RECURSIVE WriteRows(_)
WriteRows(variables) ==
    IF variables = <<>> THEN <<>>
    ELSE writerow(py_str(Head(variables))) \o WriteRows(Tail(variables))

\* lines of a file opened with newline='': CR LF, LF and CR end a line
RECURSIVE ReadLines(_, _, _)
ReadLines(s, i, cur) ==
    IF i > Len(s) THEN (IF cur = <<>> THEN <<>> ELSE <<cur>>)
    ELSE IF s[i] = LF THEN <<cur>> \o ReadLines(s, i + 1, <<>>)
    ELSE IF s[i] = CR THEN
            (IF i + 1 <= Len(s) /\ s[i + 1] = LF
             THEN <<cur>> \o ReadLines(s, i + 2, <<>>)
             ELSE <<cur>> \o ReadLines(s, i + 1, <<>>))
    ELSE ReadLines(s, i + 1, Append(cur, s[i]))

\* columns of one line: split at commas; an empty line is the empty row []
RECURSIVE SplitFields(_, _, _)
SplitFields(line, i, cur) ==
    IF i > Len(line) THEN <<cur>>
    ELSE IF line[i] = Comma THEN <<cur>> \o SplitFields(line, i + 1, <<>>)
    ELSE SplitFields(line, i + 1, Append(cur, line[i]))

ParseRow(line) == IF line = <<>> THEN <<>> ELSE SplitFields(line, 1, <<>>)

\* the rows csv.reader yields for a file's text, header row included
csv_reader(text) ==
    LET lines == ReadLines(text, 1, <<>>)
    IN  [i \in 1..Len(lines) |-> ParseRow(lines[i])]

(* ------------------------------ outcomes ------------------------------- *)

Return(v) == [raised |-> FALSE, type |-> "", msg |-> <<>>, value |-> v]
Raise(t, m) == [raised |-> TRUE, type |-> t, msg |-> m, value |-> <<>>]

\* the k-th fetch from the reader hits the I/O fault f
Faults(f, k) == f # 0 /\ f = k

IntEntry(n) == [isint |-> TRUE, int |-> n, str |-> <<>>]
StrEntry(s) == [isint |-> FALSE, int |-> 0, str |-> s]


(* ------------------------------- reader -------------------------------- *)

\* lib.py 42-48 with the conversion failing to apply: the cell kept as text
EntryKeepsText(cell) == StrEntry(cell)

\* one data cell: the integer when int(row[0]) succeeds, else the raw text
Entry(cell) ==
    LET p == py_int(cell)
    IN  IF p.ok THEN IntEntry(p.val) ELSE StrEntry(cell)

\* the scan with "if row:" left out: a blank row appended as ""
RECURSIVE ReadRowsKeepsBlank(_, _, _, _)
ReadRowsKeepsBlank(rows, i, f, data) ==
    IF Faults(f, i) THEN Raise("OSError", <<IOErrorText>>)
    ELSE IF i > Len(rows) THEN Return(data)
    ELSE ReadRowsKeepsBlank(rows, i + 1, f,
            Append(data, IF rows[i] # <<>> THEN Entry(rows[i][1]) ELSE StrEntry(<<>>)))

\* "for row in reader": rows[i] is the i-th row fetched from the reader
RECURSIVE ReadRows(_, _, _, _)
ReadRows(rows, i, f, data) ==
    IF Faults(f, i) THEN Raise("OSError", <<IOErrorText>>)
    ELSE IF i > Len(rows) THEN Return(data)
    ELSE ReadRows(rows, i + 1, f,
            IF rows[i] # <<>> THEN Append(data, Entry(rows[i][1])) ELSE data)

\* the body of the try block of read_csv_data
read_body(text, f) ==
    LET rows == csv_reader(text)
    IN  IF Faults(f, 1) THEN Raise("OSError", <<IOErrorText>>)
        ELSE IF rows = <<>> THEN Raise("Exception", <<"CSV file is empty">>)
        ELSE ReadRows(rows, 2, f, <<>>)

\* read_csv_data with the existence test moved inside the try block
read_csv_data_wraps_all(exists, text, f) ==
    LET r == IF ~exists
             THEN Raise("FileNotFoundError", <<"CSV file not found: ", file_path>>)
             ELSE read_body(text, f)
    IN  IF r.raised THEN Raise("Exception", <<"Error reading CSV file: ">> \o r.msg)
        ELSE r

read_csv_data(exists, text, f) ==
    IF ~exists THEN Raise("FileNotFoundError", <<"CSV file not found: ", file_path>>)
    ELSE LET r == read_body(text, f)
         IN  IF r.raised
             THEN Raise("Exception", <<"Error reading CSV file: ">> \o r.msg)
             ELSE r

(* --------------------------- content display --------------------------- *)

\* output_csv_content catching FileNotFoundError alone
output_csv_content_narrow(exists, text, f) ==
    LET r == read_csv_data(exists, text, f)
    IN  IF ~r.raised THEN Return(TRUE)
        ELSE IF r.type = "FileNotFoundError" THEN Return(FALSE)
        ELSE r

output_csv_content(exists, text, f) ==
    LET r == read_csv_data(exists, text, f)
    IN  IF ~r.raised THEN Return(TRUE)
        ELSE IF r.type = "FileNotFoundError" THEN Return(FALSE)
        ELSE Return(FALSE)

(* ------------------------------ statistics ----------------------------- *)

IsNumeric(e) == e.isint

RECURSIVE Sum(_)
Sum(s) == IF s = <<>> THEN 0 ELSE Head(s).int + Sum(Tail(s))

Min(s) == CHOOSE m \in {s[i].int : i \in 1..Len(s)} : \A i \in 1..Len(s) : m <= s[i].int
Max(s) == CHOOSE m \in {s[i].int : i \in 1..Len(s)} : \A i \in 1..Len(s) : m >= s[i].int

\* "//" in place of "/": the quotient rounded down
FloorDiv(a, b) == [num |-> a \div b, den |-> 1]

\* a / b on integers: the exact quotient, kept as the fraction num/den
TrueDiv(a, b) == [num |-> a, den |-> b]

get_csv_statistics(exists, text, f) ==
    LET r == read_csv_data(exists, text, f)
    IN  IF r.raised THEN Return([error |-> r.msg])
        ELSE LET numeric_data == SelectSeq(r.value, IsNumeric)
             IN  IF numeric_data = <<>>
                 THEN Return([error |-> <<"No numeric data found">>])
                 ELSE Return([count   |-> Len(numeric_data),
                              min     |-> Min(numeric_data),
                              max     |-> Max(numeric_data),
                              average |-> TrueDiv(Sum(numeric_data), Len(numeric_data)),
                              sum     |-> Sum(numeric_data)])

(* ------------------------------ validator ------------------------------ *)

\* one diagnostic: its format string and the values formatted into it
M(text, row, num, value) == [text |-> text, row |-> row, num |-> num, value |-> value]

MsgMissing == M("File does not exist", 0, 0, <<>>)
MsgEmpty == M("File is empty", 0, 0, <<>>)
MsgHeader == M("Invalid header format. Expected 'x'", 0, 0, <<>>)
MsgColumns(n, k) == M("Row {row_num}: Expected 1 column, found {len(row)}", n, k, <<>>)
MsgNonNumeric(n, v) == M("Row {row_num}: Non-numeric value '{row[0]}'", n, 0, v)
MsgNoRows == M("No data rows found", 0, 0, <<>>)
MsgFound(c) == M("Found {row_count} data rows", 0, c, <<>>)
MsgError(e) == M("Error reading file: {str(e)}", 0, 0, e)

\* the row check with a non-numeric value treated as an error
CheckRowStrict(res, row_num, row) ==
    LET cols == IF Len(row) # 1
                THEN [res EXCEPT !.valid = FALSE,
                                 !.messages = Append(@, MsgColumns(row_num, Len(row)))]
                ELSE res
    IN  IF py_int(row[1]).ok THEN [cols EXCEPT !.row_count = @ + 1]
        ELSE [cols EXCEPT !.row_count = @ + 1, !.valid = FALSE,
                          !.messages = Append(@, MsgNonNumeric(row_num, row[1]))]

\* the body of "if row:" for one non-empty row
CheckRow(res, row_num, row) ==
    LET cols == IF Len(row) # 1
                THEN [res EXCEPT !.valid = FALSE,
                                 !.messages = Append(@, MsgColumns(row_num, Len(row)))]
                ELSE res
    IN  IF py_int(row[1]).ok THEN [cols EXCEPT !.row_count = @ + 1]
        ELSE [cols EXCEPT !.row_count = @ + 1,
                          !.messages = Append(@, MsgNonNumeric(row_num, row[1]))]

\* the scan numbering the non-empty rows only
RECURSIVE ValidateRowsSkipsBlankNumbers(_, _, _, _)
ValidateRowsSkipsBlankNumbers(rows, i, f, res) ==
    IF Faults(f, i) THEN [res EXCEPT !.raised = TRUE]
    ELSE IF i > Len(rows) THEN res
    ELSE ValidateRowsSkipsBlankNumbers(rows, i + 1, f,
            IF rows[i] # <<>> THEN CheckRow(res, res.row_count + 2, rows[i]) ELSE res)

\* "for row_num, row in enumerate(reader, start=2)": rows[i] is numbered i
RECURSIVE ValidateRows(_, _, _, _)
ValidateRows(rows, i, f, res) ==
    IF Faults(f, i) THEN [res EXCEPT !.raised = TRUE]
    ELSE IF i > Len(rows) THEN res
    ELSE ValidateRows(rows, i + 1, f,
            IF rows[i] # <<>> THEN CheckRow(res, i, rows[i]) ELSE res)

HeaderOk(header) == Len(header) = 1 /\ Lower(header[1]) = <<"x">>

\* the scan from the header check to the end of the with block
validate_scan(rows, f) ==
    LET start == IF HeaderOk(rows[1])
                 THEN [raised |-> FALSE, valid |-> TRUE, messages |-> <<>>, row_count |-> 0]
                 ELSE [raised |-> FALSE, valid |-> FALSE, messages |-> <<MsgHeader>>,
                       row_count |-> 0]
        scan  == ValidateRows(rows, 2, f, start)
    IN  IF scan.raised
        THEN [valid |-> FALSE, messages |-> Append(scan.messages, MsgError(<<IOErrorText>>))]
        ELSE IF scan.row_count = 0
        THEN [valid |-> FALSE, messages |-> Append(scan.messages, MsgNoRows)]
        ELSE [valid |-> scan.valid, messages |-> Append(scan.messages, MsgFound(scan.row_count))]

\* validate_csv_format without the return after "File is empty": len(header)
\* on None raises TypeError, which the except clause reports
validate_csv_format_no_stop(exists, text, f) ==
    LET rows == csv_reader(text)
    IN  IF ~exists THEN Return([valid |-> FALSE, messages |-> <<MsgMissing>>])
        ELSE IF Faults(f, 1)
        THEN Return([valid |-> FALSE, messages |-> <<MsgError(<<IOErrorText>>)>>])
        ELSE IF rows = <<>>
        THEN Return([valid |-> FALSE,
                     messages |-> <<MsgEmpty, MsgError(<<"object of type 'NoneType' has no len()">>)>>])
        ELSE Return(validate_scan(rows, f))

validate_csv_format(exists, text, f) ==
    LET rows == csv_reader(text)
    IN  IF ~exists THEN Return([valid |-> FALSE, messages |-> <<MsgMissing>>])
        ELSE IF Faults(f, 1)
        THEN Return([valid |-> FALSE, messages |-> <<MsgError(<<IOErrorText>>)>>])
        ELSE IF rows = <<>>
        THEN Return([valid |-> FALSE, messages |-> <<MsgEmpty>>])
        ELSE Return(validate_scan(rows, f))

(* ------------------------------- writer -------------------------------- *)

\* save_to_csv with the header row left out
save_to_csv_no_header(variables) == WriteRows(variables)

\* text of data.csv after save_to_csv(variables, output_path): mode 'w'
\* truncates, then the header row and one row per variable are written
save_to_csv(variables) == writerow(<<"x">>) \o WriteRows(variables)

\* the file opened 'r+' in place of 'w': the text laid over the old
\* contents, whatever lies beyond it left in the file
write_file_in_place(old, text) == text \o SubSeq(old, Len(text) + 1, Len(old))

\* open(csv_file_path, 'w') and the writes: the old contents (empty when the
\* file did not exist) are truncated away, then the text is written
write_file(old, text) == SubSeq(old, 1, 0) \o text

(* ---------------------------- state machine ---------------------------- *)

NoResult == Return(<<>>)

\* fetches a full scan makes: one per row and the one that meets the end
Fetches == IF file_exists THEN Len(csv_reader(content)) + 1 ELSE 0

\* the I/O faults a call may meet: none, or one at a fetch the scan makes
FaultChoices == {f \in 0..MaxFault : f <= Fetches}

Init ==
    /\ dir_exists \in BOOLEAN
    /\ file_exists = FALSE
    /\ content = <<>>
    /\ saved = <<>>
    /\ op = "init"
    /\ fault = 0
    /\ ret = NoResult

\* func.save_to_csv(variables, output_path)
Save(variables) ==
    /\ dir_exists' = TRUE
    /\ file_exists' = TRUE
    /\ content' = write_file(content, save_to_csv(variables))
    /\ saved' = <<[variables |-> variables, fresh |-> ~dir_exists,
                   existed |-> file_exists,
                   shrunk |-> Len(content) > Len(save_to_csv(variables)),
                   before |-> IF saved # <<>> /\ saved[1].variables = variables
                              THEN <<content>> ELSE <<>>]>>
    /\ op' = "save_to_csv"
    /\ fault' = 0
    /\ ret' = Return(file_path)

\* lib.read_csv_data(file_path), the f-th fetch hitting an I/O fault
Read(f) ==
    /\ op' = "read_csv_data"
    /\ fault' = f
    /\ ret' = read_csv_data(file_exists, content, f)
    /\ UNCHANGED <<dir_exists, file_exists, content, saved>>

\* lib.output_csv_content(file_path)
Output(f) ==
    /\ op' = "output_csv_content"
    /\ fault' = f
    /\ ret' = output_csv_content(file_exists, content, f)
    /\ UNCHANGED <<dir_exists, file_exists, content, saved>>

\* lib.get_csv_statistics(file_path)
Statistics(f) ==
    /\ op' = "get_csv_statistics"
    /\ fault' = f
    /\ ret' = get_csv_statistics(file_exists, content, f)
    /\ UNCHANGED <<dir_exists, file_exists, content, saved>>

\* lib.validate_csv_format(file_path)
Validate(f) ==
    /\ op' = "validate_csv_format"
    /\ fault' = f
    /\ ret' = validate_csv_format(file_exists, content, f)
    /\ UNCHANGED <<dir_exists, file_exists, content, saved>>

\* a file not produced by the writer: another program creates it empty
ExternalCreate ==
    /\ ~file_exists
    /\ dir_exists' = TRUE
    /\ file_exists' = TRUE
    /\ content' = <<>>
    /\ saved' = <<>>
    /\ op' = "external"
    /\ fault' = 0
    /\ ret' = NoResult

\* another program appends one character to the file
ExternalAppend(c) ==
    /\ file_exists
    /\ Len(content) < MaxFileLen
    /\ content' = Append(content, c)
    /\ saved' = <<>>
    /\ op' = "external"
    /\ fault' = 0
    /\ ret' = NoResult
    /\ UNCHANGED <<dir_exists, file_exists>>

\* another program removes the file, and the directory with it or not
ExternalRemove(keep_dir) ==
    /\ file_exists
    /\ dir_exists' = keep_dir
    /\ file_exists' = FALSE
    /\ content' = <<>>
    /\ saved' = <<>>
    /\ op' = "external"
    /\ fault' = 0
    /\ ret' = NoResult

Next ==
    \/ \E variables \in SeqsUpTo(IntVals, MaxSeqLen) : Save(variables)
    \/ \E f \in FaultChoices : Read(f)
    \/ \E f \in FaultChoices : Output(f)
    \/ \E f \in FaultChoices : Statistics(f)
    \/ \E f \in FaultChoices : Validate(f)
    \/ ExternalCreate
    \/ \E c \in ExternalChars : ExternalAppend(c)
    \/ \E keep_dir \in BOOLEAN : ExternalRemove(keep_dir)

Spec == Init /\ [][Next]_vars

(* ------------------------------- claims -------------------------------- *)

\* the rows of the file as the readers meet them, and what a claim calls
\* its lines: rows[1] is the header, an empty row is a blank line
Rows == csv_reader(content)
HasFirstLine == file_exists /\ Rows # <<>>
IsBlank(row) == row = <<>>
NotBlank(row) == row # <<>>
DataRows == SelectSeq(Tail(Rows), NotBlank)
IsIntText(cell) == py_int(cell).ok
Written == saved[1].variables
Messages == ret.value.messages
HasMessage(m) == \E k \in 1..Len(Messages) : Messages[k] = m

RECURSIVE SumOf(_)
SumOf(ints) == IF ints = <<>> THEN 0 ELSE Head(ints) + SumOf(Tail(ints))

\* C1: a sequence written by save_to_csv to a fresh directory and read back
\* by read_csv_data comes back equal: same length, same integers in the same
\* order, each entry an integer and none a string.
C1_RoundTrip ==
    (op = "read_csv_data" /\ saved # <<>> /\ saved[1].fresh /\ fault = 0)
        => /\ ~ret.raised
           /\ Len(ret.value) = Len(Written)
           /\ \A i \in 1..Len(Written) :
                 /\ ret.value[i].isint
                 /\ ret.value[i].int = Written[i]
                 /\ ret.value[i].str = <<>>

C1_Witness ==
    /\ op = "read_csv_data" /\ saved # <<>> /\ saved[1].fresh /\ fault = 0
    /\ Len(Written) >= 2 /\ Written[1] < 0 /\ Written[2] > 9
    /\ ~ret.raised /\ Len(ret.value) = Len(Written)

\* C2: for an existing file with a first line, scanned without I/O error,
\* validate_csv_format answers valid = TRUE exactly when the header is one
\* column reading x in lower case, every non-blank line after it has one
\* column, and there is a non-blank data line; a header mismatch gives
\* valid = FALSE with the header message, and a non-numeric value adds its
\* message without deciding valid.
C2_ValidityAsymmetry ==
    (op = "validate_csv_format" /\ HasFirstLine /\ fault = 0)
        => LET headerOk == Len(Rows[1]) = 1 /\ Rows[1][1] \in {<<"x">>, <<"X">>}
               oneCol   == \A i \in 2..Len(Rows) : NotBlank(Rows[i]) => Len(Rows[i]) = 1
               someData == \E i \in 2..Len(Rows) : NotBlank(Rows[i])
           IN  /\ ~ret.raised
               /\ ret.value.valid <=> (headerOk /\ oneCol /\ someData)
               /\ ~headerOk => (~ret.value.valid /\ HasMessage(MsgHeader))
               /\ headerOk => ~HasMessage(MsgHeader)
               /\ \A i \in 2..Len(Rows) :
                     NotBlank(Rows[i]) =>
                        (HasMessage(MsgNonNumeric(i, Rows[i][1])) <=> ~IsIntText(Rows[i][1]))

C2_Witness ==
    /\ op = "validate_csv_format" /\ HasFirstLine /\ fault = 0
    /\ ret.value.valid
    /\ \E i \in 2..Len(Rows) :
          NotBlank(Rows[i]) /\ ~IsIntText(Rows[i][1]) /\ HasMessage(MsgNonNumeric(i, Rows[i][1]))

\* C3: validate_csv_format on the file save_to_csv wrote for a non-empty
\* sequence answers valid = TRUE, reports "Found N data rows" with N the
\* length of the sequence, and reports no header, column-count or
\* non-numeric diagnostic.
C3_WrittenFileValid ==
    (op = "validate_csv_format" /\ saved # <<>> /\ Written # <<>> /\ fault = 0)
        => /\ ~ret.raised
           /\ ret.value.valid
           /\ HasMessage(MsgFound(Len(Written)))
           /\ \A k \in 1..Len(Messages) :
                 Messages[k].text \notin {MsgHeader.text, MsgColumns(0, 0).text,
                                          MsgNonNumeric(0, <<>>).text}

C3_Witness ==
    /\ op = "validate_csv_format" /\ saved # <<>> /\ fault = 0
    /\ Len(Written) >= 2 /\ Written[1] < 0
    /\ ret.value.valid /\ HasMessage(MsgFound(Len(Written)))

\* the integers of the file's data lines, when every data line holds one
DataInts == [k \in 1..Len(DataRows) |-> py_int(DataRows[k][1]).val]
AllIntData == \A k \in 1..Len(DataRows) : IsIntText(DataRows[k][1])
StatKeys == {"count", "min", "max", "sum", "average"}

StatsOf(ints, st) ==
    /\ DOMAIN st = StatKeys
    /\ st.count = Len(ints)
    /\ st.sum = SumOf(ints)
    /\ \E i \in 1..Len(ints) : st.min = ints[i]
    /\ \A i \in 1..Len(ints) : st.min <= ints[i]
    /\ \E i \in 1..Len(ints) : st.max = ints[i]
    /\ \A i \in 1..Len(ints) : st.max >= ints[i]
    /\ st.average.den # 0
    /\ st.average.num * st.count = st.sum * st.average.den

\* C4: get_csv_statistics on the file of a non-empty written sequence, or on
\* any file with a header and only integer data lines, returns a record
\* without an error key whose count is the number of values, sum their sum,
\* min and max their extremes, and average times count equals sum.
C4_Statistics ==
    /\ (op = "get_csv_statistics" /\ saved # <<>> /\ Written # <<>> /\ fault = 0)
          => (~ret.raised /\ StatsOf(Written, ret.value))
    /\ (op = "get_csv_statistics" /\ HasFirstLine /\ DataRows # <<>> /\ AllIntData
           /\ fault = 0)
          => (~ret.raised /\ StatsOf(DataInts, ret.value))

C4_Witness ==
    /\ op = "get_csv_statistics" /\ saved # <<>> /\ fault = 0
    /\ Len(Written) >= 2 /\ Written[1] < Written[2]
    /\ ~ret.raised /\ DOMAIN ret.value = StatKeys
    /\ ret.value.sum % ret.value.count # 0
    /\ ret.value.min = Written[1] /\ ret.value.max = Written[2]

\* C5: read_csv_data on a path that does not exist raises FileNotFoundError:
\* it returns no sequence, and the condition is not the generic failure.
C5_NotFound ==
    (op = "read_csv_data" /\ ~file_exists)
        => /\ ret.raised
           /\ ret.type = "FileNotFoundError"
           /\ ret.msg = <<"CSV file not found: ", file_path>>

C5_Witness ==
    op = "read_csv_data" /\ ~file_exists /\ ret.raised /\ ret.type = "FileNotFoundError"

\* C6: read_csv_data on an existing file without a first line raises the
\* empty-file condition "CSV file is empty" itself, not the generic read
\* failure "Error reading CSV file: ..." that wraps errors met in the scan.
C6_EmptyFileCondition ==
    (op = "read_csv_data" /\ file_exists /\ content = <<>> /\ fault = 0)
        => /\ ret.raised
           /\ ret.type # "FileNotFoundError"
           /\ ret.msg = <<"CSV file is empty">>

\* C7: validate_csv_format never raises and returns a boolean valid with a
\* list of messages; a missing file gives exactly valid = FALSE with
\* "File does not exist", a file without a header line exactly
\* valid = FALSE with "File is empty".
C7_ValidatorNeverRaises ==
    (op = "validate_csv_format")
        => /\ ~ret.raised
           /\ DOMAIN ret.value = {"valid", "messages"}
           /\ ret.value.valid \in BOOLEAN
           /\ DOMAIN Messages = 1..Len(Messages)
           /\ ~file_exists => ret.value = [valid |-> FALSE, messages |-> <<MsgMissing>>]
           /\ (file_exists /\ content = <<>> /\ fault = 0)
                 => ret.value = [valid |-> FALSE, messages |-> <<MsgEmpty>>]
           /\ fault # 0 => (~ret.value.valid
                            /\ Messages[Len(Messages)] = MsgError(<<IOErrorText>>))

C7_Witness ==
    /\ op = "validate_csv_format" /\ file_exists /\ content = <<>> /\ fault = 0
    /\ ret.value = [valid |-> FALSE, messages |-> <<MsgEmpty>>]

\* C8: get_csv_statistics and output_csv_content never raise: statistics
\* returns the five-key record or a record with the single key error (the
\* Reader's message when the read fails, "No numeric data found" when it
\* succeeds without a numeric entry), and output returns TRUE exactly when
\* the read succeeds.
C8_CallersCatch ==
    LET r == read_csv_data(file_exists, content, fault)
    IN  /\ (op = "get_csv_statistics")
              => /\ ~ret.raised
                 /\ DOMAIN ret.value = StatKeys \/ DOMAIN ret.value = {"error"}
                 /\ r.raised => (DOMAIN ret.value = {"error"} /\ ret.value.error = r.msg)
                 /\ ~file_exists
                       => ret.value = [error |-> <<"CSV file not found: ", file_path>>]
                 /\ (~r.raised /\ \A k \in 1..Len(r.value) : ~r.value[k].isint)
                       => ret.value = [error |-> <<"No numeric data found">>]
                 /\ (~r.raised /\ \E k \in 1..Len(r.value) : r.value[k].isint)
                       => DOMAIN ret.value = StatKeys
        /\ (op = "output_csv_content")
              => /\ ~ret.raised
                 /\ ret.value \in BOOLEAN
                 /\ ret.value <=> (HasFirstLine /\ fault = 0)

C8_Witness ==
    /\ op = "output_csv_content" /\ file_exists /\ fault # 0
    /\ ~ret.raised /\ ret.value = FALSE

\* the position in the file of the first non-blank line after the header
HasDataRow == HasFirstLine /\ \E i \in 2..Len(Rows) : NotBlank(Rows[i])
FirstDataRow == CHOOSE i \in 2..Len(Rows) :
                    NotBlank(Rows[i]) /\ \A j \in 2..(i - 1) : IsBlank(Rows[j])
RowMessages == {Messages[k] : k \in {j \in 1..Len(Messages) : Messages[j].row # 0}}

\* the diagnostics about the first non-blank line after the header carry
\* the row number n, and no diagnostic carries a smaller one
FirstDataRowNumbered(n) ==
    LET row == Rows[FirstDataRow]
    IN  /\ Len(row) # 1 => HasMessage(MsgColumns(n, Len(row)))
        /\ ~IsIntText(row[1]) => HasMessage(MsgNonNumeric(n, row[1]))
        /\ \A m \in RowMessages : m.row >= n

\* C9 as stated: in every file, blank lines after the header or not, the
\* diagnostics about the first non-blank line after the header carry n = 2.
C9_FirstDataRowIsRow2 ==
    (op = "validate_csv_format" /\ HasDataRow /\ fault = 0)
        => FirstDataRowNumbered(2)

\* C9 amended: a diagnostic carries the row's position in the file, the
\* header being row 1 and blank lines counted: the first non-blank line
\* after the header is numbered 2 plus the blank lines before it, which is
\* 2 exactly when no blank line lies between.
C9_RowNumberIsFilePosition ==
    (op = "validate_csv_format" /\ HasDataRow /\ fault = 0)
        => /\ FirstDataRowNumbered(FirstDataRow)
           /\ FirstDataRow = 2 + Cardinality({j \in 2..(FirstDataRow - 1) : IsBlank(Rows[j])})
           /\ \A m \in RowMessages : m.row \in 2..Len(Rows) /\ NotBlank(Rows[m.row])

C9_Witness ==
    /\ op = "validate_csv_format" /\ HasDataRow /\ fault = 0
    /\ FirstDataRow = 3
    /\ HasMessage(MsgNonNumeric(3, Rows[3][1]))

\* C10: for an existing file with a first line, read_csv_data drops the
\* first line whatever it holds and returns one entry per non-blank line
\* after it, in file order: the integer when the first column parses as
\* one, else the first column's text unchanged; a blank line gives no
\* entry and a non-numeric value no failure.
C10_ReaderLines ==
    (op = "read_csv_data" /\ HasFirstLine /\ fault = 0)
        => /\ ~ret.raised
           /\ Len(ret.value) = Len(DataRows)
           /\ \A k \in 1..Len(DataRows) :
                 LET cell == DataRows[k][1]
                 IN  IF IsIntText(cell)
                     THEN ret.value[k].isint /\ ret.value[k].int = py_int(cell).val
                     ELSE ~ret.value[k].isint /\ ret.value[k].str = cell

C10_Witness ==
    /\ op = "read_csv_data" /\ HasFirstLine /\ fault = 0
    /\ Rows[1] # <<<<"x">>>>
    /\ \E i \in 2..Len(Rows) : IsBlank(Rows[i])
    /\ ~ret.raised /\ Len(ret.value) = 1 /\ ~ret.value[1].isint /\ ret.value[1].str # <<>>

\* the rows a file holds when it is the header x and then one row per
\* integer of the sequence, and nothing else
RowsOf(ints) ==
    [i \in 1..(Len(ints) + 1) |-> IF i = 1 THEN <<<<"x">>>> ELSE <<py_str(ints[i - 1])>>]

\* C11: last write wins.  After a completed save_to_csv, whatever the
\* directory and file held before (nothing, a file of another program, an
\* earlier and possibly longer write), data.csv holds the header x and the
\* rows of the sequence just written and nothing more, each row ended by
\* CR LF; a write of the sequence the file already held leaves the contents
\* as they were before it; and read_csv_data returns the last written
\* sequence.
C11_LastWriteWins ==
    (saved # <<>>)
        => /\ file_exists /\ dir_exists
           /\ csv_reader(content) = RowsOf(Written)
           /\ Len(content) =
                 3 + SumOf([i \in 1..Len(Written) |-> Len(py_str(Written[i])) + 2])
           /\ saved[1].before # <<>> => content = saved[1].before[1]
           /\ (op = "read_csv_data" /\ fault = 0)
                 => /\ ~ret.raised
                    /\ Len(ret.value) = Len(Written)
                    /\ \A i \in 1..Len(Written) : ret.value[i] = IntEntry(Written[i])

C11_Witness ==
    /\ op = "read_csv_data" /\ saved # <<>> /\ fault = 0
    /\ saved[1].existed /\ saved[1].shrunk /\ ~saved[1].fresh
    /\ Written # <<>>
    /\ ~ret.raised /\ Len(ret.value) = Len(Written)
    /\ csv_reader(content) = RowsOf(Written)

====
